---- MODULE Spec2Model ----
(***************************************************************************)
(* The user-account directory of JustFlourProjectManagement                *)
(* (server/src/models/user.js and the routes of server/src/routes/users.js *)
(* that write or read one account: POST /api/users/signup and GET, PUT and *)
(* DELETE /api/users/:id).                                                 *)
(*                                                                         *)
(* JavaScript strings that the code lower-cases or trims (email, name,     *)
(* password) are sequences of one-character strings; roles and statuses    *)
(* are opaque strings.  An object with optional properties (userData, the  *)
(* updates of updateUser) is a function whose domain is the set of the     *)
(* properties that are present.  A timestamp is the clock reading; a       *)
(* nullable timestamp is <<>> (null) or <<t>>.                             *)
(*                                                                         *)
(* The Map `users` is a sequence of [key, value] entries in insertion      *)
(* order.  verifyPassword holds a reference to the object it looked up     *)
(* across its await; the only write the code ever makes through a          *)
(* reference is that call's own `user.lastLoginAt = ...`, immediately      *)
(* followed by users.set(user.id, user), so holding a copy of the object   *)
(* and storing the copy gives the same Map contents and the same return    *)
(* values as holding the reference.                                        *)
(***************************************************************************)
EXTENDS Integers, Sequences, FiniteSets, TLC

MaxUsers == 3    \* ids uuidv4 hands out in one run
MaxCalls == 2    \* async calls (createUser, verifyPassword) in flight at once
MaxOps == 4      \* steps of one run that change the directory, the calls in flight or the clock

VARIABLES users, calls, now, nextId, ret, deleted, ops

vars == <<users, calls, now, nextId, ret, deleted, ops>>

UserRole == [USER |-> "user", ADMIN |-> "admin"]

UserStatus == [ACTIVE |-> "active", INACTIVE |-> "inactive", PENDING |-> "pending"]

----------------------------------------------------------------------------
(* JavaScript values *)

Null == [null |-> TRUE]

NoProps == [k \in {} |-> TRUE]

Prop(obj, k) == obj[k]

Has(obj, k) == k \in DOMAIN obj

\* !x for a property that is a string or undefined
Falsy(obj, k) == ~Has(obj, k) \/ obj[k] = <<>>

toLowerCaseChar(c) ==
    CASE c = "A" -> "a"
      [] c = "B" -> "b"
      [] c = "N" -> "n"
      [] OTHER -> c

toLowerCase(s) == [i \in 1..Len(s) |-> toLowerCaseChar(s[i])]

RECURSIVE trimStart(_)
trimStart(s) == IF s # <<>> /\ Head(s) = " " THEN trimStart(Tail(s)) ELSE s

RECURSIVE trimEnd(_)
trimEnd(s) == IF s # <<>> /\ s[Len(s)] = " " THEN trimEnd(SubSeq(s, 1, Len(s) - 1)) ELSE s

trim(s) == trimEnd(trimStart(s))

\* bcrypt.hash(password, 10): a value that is not the plaintext and that
\* bcrypt.compare accepts exactly for that plaintext (the salt is left out).
bcryptHash(password) == [bcrypt |-> password]

bcryptCompare(password, hash) == hash.bcrypt = password

----------------------------------------------------------------------------
(* Map *)

mapHas(m, k) == \E i \in 1..Len(m) : m[i].key = k

mapIndex(m, k) == CHOOSE i \in 1..Len(m) : m[i].key = k

mapGet(m, k) == m[mapIndex(m, k)].value

mapSet(m, k, v) ==
    IF mapHas(m, k)
    THEN [m EXCEPT ![mapIndex(m, k)] = [key |-> k, value |-> v]]
    ELSE Append(m, [key |-> k, value |-> v])

\* users.delete that drops the oldest entry instead of the entry of the key
mapDelete_oldest(m, k) == IF mapHas(m, k) THEN Tail(m) ELSE m

mapDelete(m, k) == SelectSeq(m, LAMBDA e : e.key # k)

mapValues(m) == [i \in 1..Len(m) |-> m[i].value]

----------------------------------------------------------------------------
(* models/user.js *)

Throw(message) == [kind |-> "throw", message |-> message]

\* sanitizeUser that returns the stored object
sanitizeUser_raw(user) == user

sanitizeUser(user) == [k \in DOMAIN user \ {"password"} |-> user[k]]

findUserById(m, id) == IF mapHas(m, id) THEN mapGet(m, id) ELSE Null

\* findUserByEmail that compares the email as given
findUserByEmail_exact(m, email) ==
    LET hits == {i \in 1..Len(m) : m[i].value.email = email}
    IN  IF hits = {} THEN Null
        ELSE m[CHOOSE i \in hits : \A j \in hits : i <= j].value

findUserByEmail(m, email) ==
    LET normalizedEmail == trim(toLowerCase(email))
        hits == {i \in 1..Len(m) : m[i].value.email = normalizedEmail}
    IN  IF hits = {} THEN Null
        ELSE m[CHOOSE i \in hits : \A j \in hits : i <= j].value

\* createUser that looks for the email before it checks the required fields
createUserCheck_duplicateFirst(m, userData) ==
    IF Has(userData, "email") /\ findUserByEmail(m, userData.email) # Null
    THEN Throw("User with this email already exists")
    ELSE IF Falsy(userData, "email") \/ Falsy(userData, "password") \/ Falsy(userData, "name")
    THEN Throw("Email, password, and name are required")
    ELSE [kind |-> "await"]

\* createUser up to its await: the error it throws, or "await"
createUserCheck(m, userData) ==
    IF Falsy(userData, "email") \/ Falsy(userData, "password") \/ Falsy(userData, "name")
    THEN Throw("Email, password, and name are required")
    ELSE IF findUserByEmail(m, userData.email) # Null
    THEN Throw("User with this email already exists")
    ELSE [kind |-> "await"]

\* createUser that lower-cases the email and the name but trims neither
newUser_untrimmed(userData, hashedPassword, id, t1, t2) ==
    [id |-> id,
     email |-> toLowerCase(userData.email),
     password |-> hashedPassword,
     name |-> userData.name,
     role |-> IF Has(userData, "role") THEN userData.role ELSE UserRole.USER,
     status |-> UserStatus.ACTIVE,
     createdAt |-> t1,
     updatedAt |-> t2,
     lastLoginAt |-> <<>>]

\* the object createUser builds once bcrypt.hash has resolved
newUser(userData, hashedPassword, id, t1, t2) ==
    [id |-> id,
     email |-> trim(toLowerCase(userData.email)),
     password |-> hashedPassword,
     name |-> trim(userData.name),
     role |-> IF Has(userData, "role") THEN userData.role ELSE UserRole.USER,
     status |-> UserStatus.ACTIVE,
     createdAt |-> t1,
     updatedAt |-> t2,
     lastLoginAt |-> <<>>]

\* an allow-list that lets the email through
allowedUpdates_email == {"name", "role", "status", "email"}

allowedUpdates == {"name", "role", "status"}

isNotAdmin(currentUser) == currentUser = Null \/ currentUser.role # UserRole.ADMIN

\* updateUser that looks the id up before it checks the role
updateUser_lookupFirst(m, id, updates, currentUser, t) ==
    IF ~mapHas(m, id)
    THEN [users |-> m, result |-> Throw("User not found")]
    ELSE IF isNotAdmin(currentUser)
    THEN [users |-> m, result |-> Throw("User editing is restricted to administrators only")]
    ELSE LET user == mapGet(m, id)
             sanitizedUpdates == [k \in allowedUpdates \cap DOMAIN updates |-> updates[k]]
             updatedUser ==
                 [k \in DOMAIN user \cup DOMAIN sanitizedUpdates \cup {"updatedAt"} |->
                     IF k = "updatedAt" THEN t
                     ELSE IF k \in DOMAIN sanitizedUpdates THEN sanitizedUpdates[k]
                     ELSE user[k]]
         IN  [users |-> mapSet(m, id, updatedUser),
              result |-> [kind |-> "user", value |-> sanitizeUser(updatedUser)]]

updateUser(m, id, updates, currentUser, t) ==
    IF isNotAdmin(currentUser)
    THEN [users |-> m, result |-> Throw("User editing is restricted to administrators only")]
    ELSE IF ~mapHas(m, id)
    THEN [users |-> m, result |-> Throw("User not found")]
    ELSE LET user == mapGet(m, id)
             sanitizedUpdates == [k \in allowedUpdates \cap DOMAIN updates |-> updates[k]]
             updatedUser ==
                 [k \in DOMAIN user \cup DOMAIN sanitizedUpdates \cup {"updatedAt"} |->
                     IF k = "updatedAt" THEN t
                     ELSE IF k \in DOMAIN sanitizedUpdates THEN sanitizedUpdates[k]
                     ELSE user[k]]
         IN  [users |-> mapSet(m, id, updatedUser),
              result |-> [kind |-> "user", value |-> sanitizeUser(updatedUser)]]

\* deleteUser that looks the id up before it checks the role
deleteUser_lookupFirst(m, id, currentUser) ==
    IF ~mapHas(m, id)
    THEN [users |-> m, result |-> Throw("User not found")]
    ELSE IF isNotAdmin(currentUser)
    THEN [users |-> m, result |-> Throw("User deletion is restricted to administrators only")]
    ELSE [users |-> mapDelete(m, id), result |-> [kind |-> "true"]]

deleteUser(m, id, currentUser) ==
    IF isNotAdmin(currentUser)
    THEN [users |-> m, result |-> Throw("User deletion is restricted to administrators only")]
    ELSE IF ~mapHas(m, id)
    THEN [users |-> m, result |-> Throw("User not found")]
    ELSE [users |-> mapDelete(m, id), result |-> [kind |-> "true"]]

\* verifyPassword that stores and returns the user without stamping lastLoginAt
verifyPasswordResume_noStamp(m, user, password, t) ==
    IF ~bcryptCompare(password, user.password)
    THEN [users |-> m, result |-> [kind |-> "null"]]
    ELSE [users |-> mapSet(m, user.id, user),
          result |-> [kind |-> "user", value |-> sanitizeUser(user)]]

\* verifyPassword after bcrypt.compare has resolved, for the object it looked up
verifyPasswordResume(m, user, password, t) ==
    IF ~bcryptCompare(password, user.password)
    THEN [users |-> m, result |-> [kind |-> "null"]]
    ELSE LET loggedIn == [user EXCEPT !.lastLoginAt = <<t>>]
         IN  [users |-> mapSet(m, loggedIn.id, loggedIn),
              result |-> [kind |-> "user", value |-> sanitizeUser(loggedIn)]]

\* String.prototype.includes
includes(s, sub) ==
    \E i \in 1..(Len(s) - Len(sub) + 1) : SubSeq(s, i, i + Len(sub) - 1) = sub

\* Array.prototype.filter
filter(arr, Keep(_)) == SelectSeq(arr, Keep)

getAllUsers_caseSensitive(m, options) ==
    LET all == mapValues(m)
        bySearch ==
            IF Has(options, "search") /\ options.search # <<>>
            THEN filter(all, LAMBDA user :
                     includes(toLowerCase(user.name), options.search)
                     \/ includes(toLowerCase(user.email), options.search))
            ELSE all
        byStatus ==
            IF Has(options, "status") /\ options.status # ""
            THEN filter(bySearch, LAMBDA user : user.status = options.status)
            ELSE bySearch
        byRole ==
            IF Has(options, "role") /\ options.role # ""
            THEN filter(byStatus, LAMBDA user : user.role = options.role)
            ELSE byStatus
    IN  [i \in 1..Len(byRole) |-> sanitizeUser(byRole[i])]

getAllUsers(m, options) ==
    LET all == mapValues(m)
        bySearch ==
            IF Has(options, "search") /\ options.search # <<>>
            THEN LET searchLower == toLowerCase(options.search)
                 IN  filter(all, LAMBDA user :
                         includes(toLowerCase(user.name), searchLower)
                         \/ includes(toLowerCase(user.email), searchLower))
            ELSE all
        byStatus ==
            IF Has(options, "status") /\ options.status # ""
            THEN filter(bySearch, LAMBDA user : user.status = options.status)
            ELSE bySearch
        byRole ==
            IF Has(options, "role") /\ options.role # ""
            THEN filter(byStatus, LAMBDA user : user.role = options.role)
            ELSE byStatus
    IN  [i \in 1..Len(byRole) |-> sanitizeUser(byRole[i])]

getUserStats_countAll(m) ==
    LET allUsers == mapValues(m)
    IN  [totalUsers |-> Len(allUsers),
         activeUsers |-> Len(allUsers),
         administrators |-> Len(filter(allUsers, LAMBDA u : u.role = UserRole.ADMIN))]

getUserStats(m) ==
    LET allUsers == mapValues(m)
    IN  [totalUsers |-> Len(allUsers),
         activeUsers |-> Len(filter(allUsers, LAMBDA u : u.status = UserStatus.ACTIVE)),
         administrators |-> Len(filter(allUsers, LAMBDA u : u.role = UserRole.ADMIN))]

----------------------------------------------------------------------------
(* routes/users.js *)

\* GET /api/users/:id
getUserRoute(m, id) ==
    LET user == findUserById(m, id)
    IN  IF user = Null
        THEN [status |-> 404, body |-> [error |-> "User not found"]]
        ELSE [status |-> 200, body |-> [k \in DOMAIN user \ {"password"} |-> user[k]]]

\* authenticate: req.currentUser from the x-user-id and x-user-role headers
authenticate(headers) ==
    LET userRole == IF Has(headers, "x-user-role") /\ headers["x-user-role"] # ""
                    THEN headers["x-user-role"] ELSE UserRole.USER
    IN  IF Has(headers, "x-user-id") /\ headers["x-user-id"] # ""
        THEN [id |-> headers["x-user-id"], role |-> userRole]
        ELSE Null

\* requireAdmin answers itself instead of calling next()
requireAdmin(currentUser) == currentUser = Null \/ currentUser.role # UserRole.ADMIN

requireAdminResponse ==
    [status |-> 403,
     body |-> [error |-> "User editing is restricted to administrators only. Contact an admin if you need changes made to user accounts."]]

NameMinLength == 1

NameMaxLength == 100

\* the body after the sanitizers of the validation chains: body('name')...trim()
sanitizedBody(body) ==
    [k \in DOMAIN body |-> IF k = "name" THEN trim(body[k]) ELSE body[k]]

\* validationResult(req): the fields of the body that fail their chain
validationResult(body) ==
    {k \in DOMAIN body :
        \/ k = "name" /\ ~(Len(trim(body[k])) >= NameMinLength /\ Len(trim(body[k])) <= NameMaxLength)
        \/ k = "role" /\ body[k] \notin {UserRole.USER, UserRole.ADMIN}
        \/ k = "status" /\ body[k] \notin {"active", "inactive", "pending"}}

\* what the route handlers answer for the outcome r of the model function
handlerResponse(r, ok) ==
    IF r.result.kind # "throw" THEN ok
    ELSE IF r.result.message = "User not found"
    THEN [status |-> 404, body |-> [error |-> r.result.message]]
    ELSE [status |-> 403, body |-> [error |-> r.result.message]]

\* PUT /api/users/:id with the validation chains ahead of requireAdmin
putUserRoute_validateFirst(m, headers, id, body, t) ==
    LET currentUser == authenticate(headers)
    IN  IF validationResult(body) # {}
        THEN [users |-> m,
              response |-> [status |-> 400, body |-> [errors |-> validationResult(body)]]]
        ELSE IF requireAdmin(currentUser)
        THEN [users |-> m, response |-> requireAdminResponse]
        ELSE LET r == updateUser(m, id, sanitizedBody(body), currentUser, t)
             IN  [users |-> r.users,
                  response |-> handlerResponse(r, [status |-> 200, body |-> r.result.value])]

\* PUT /api/users/:id
putUserRoute(m, headers, id, body, t) ==
    LET currentUser == authenticate(headers)
    IN  IF requireAdmin(currentUser)
        THEN [users |-> m, response |-> requireAdminResponse]
        ELSE IF validationResult(body) # {}
        THEN [users |-> m,
              response |-> [status |-> 400, body |-> [errors |-> validationResult(body)]]]
        ELSE LET r == updateUser(m, id, sanitizedBody(body), currentUser, t)
             IN  [users |-> r.users,
                  response |-> handlerResponse(r, [status |-> 200, body |-> r.result.value])]

\* DELETE /api/users/:id
deleteUserRoute(m, headers, id) ==
    LET currentUser == authenticate(headers)
    IN  IF requireAdmin(currentUser)
        THEN [users |-> m, response |-> requireAdminResponse]
        ELSE LET r == deleteUser(m, id, currentUser)
             IN  [users |-> r.users,
                  response |-> handlerResponse(r, [status |-> 204, body |-> NoProps])]

\* validator's isEmail, as far as the inputs here go: one "@" with something on
\* either side of it and no blank
isEmail(s) ==
    \E i \in 2..(Len(s) - 1) :
        /\ s[i] = "@"
        /\ \A j \in 1..Len(s) : j # i => s[j] \notin {"@", " "}

\* validator's normalizeEmail: the address in lower case
normalizeEmail(s) == toLowerCase(s)

PasswordMinLength == 8

\* validationResult(req) of POST /api/users/signup: the fields that fail their chain
signupValidationResult(body) ==
    {k \in {"email", "password", "name"} :
        \/ k = "email" /\ ~(Has(body, k) /\ isEmail(body[k]))
        \/ k = "password" /\ ~(Has(body, k) /\ Len(body[k]) >= PasswordMinLength)
        \/ k = "name" /\ ~(/\ Has(body, k)
                            /\ Len(trim(body[k])) >= NameMinLength
                            /\ Len(trim(body[k])) <= NameMaxLength)}

\* the object POST /api/users/signup passes to createUser
signupUserData(body) ==
    [email |-> normalizeEmail(body.email),
     password |-> body.password,
     name |-> trim(body.name),
     role |-> UserRole.USER]

----------------------------------------------------------------------------
(* Inputs *)

EmailInputs == {<<"a">>, <<" ", "A">>, <<"b">>}

PasswordInputs == {<<"p">>, <<"q">>}

UserDatas ==
    {[email |-> <<"a">>, password |-> <<"p">>, name |-> <<" ", "N", " ">>],
     [email |-> <<" ", "A">>, password |-> <<"q">>, name |-> <<"n">>, role |-> "root"],
     [email |-> <<"b">>, password |-> <<"p">>, name |-> <<" ">>],
     [email |-> <<"c">>, password |-> <<"p">>, name |-> <<"n">>, role |-> UserRole.ADMIN],
     [email |-> <<"a">>],
     [password |-> <<"p">>, name |-> <<"n">>],
     [email |-> <<>>, password |-> <<"p">>, name |-> <<"n">>],
     [email |-> <<" ", "A">>, password |-> <<>>, name |-> <<"n">>],
     [email |-> <<"b">>, password |-> <<"p">>, name |-> <<>>]}

Ids == 1..(MaxUsers + 1)

Actors_admin == [id |-> 2, role |-> UserRole.ADMIN]

Actors ==
    {Null, [id |-> 1, role |-> UserRole.USER], [id |-> 3, role |-> "Admin"], Actors_admin}

Updates ==
    {[name |-> <<"m">>],
     [role |-> UserRole.ADMIN, status |-> UserStatus.INACTIVE],
     [name |-> <<"m">>, email |-> <<"z">>, password |-> <<"x">>],
     [id |-> 0, createdAt |-> 0, lastLoginAt |-> <<0>>]}

\* an id that may be stored and an id that never is
SomeIds == {1, MaxUsers + 1}

\* the admin with every id and every updates object; the other actors with SomeIds
UpdateRequests ==
    {[id |-> i, updates |-> u, currentUser |-> Actors_admin] : i \in Ids, u \in Updates}
    \cup {[id |-> i, updates |-> [name |-> <<"m">>], currentUser |-> a] :
              i \in SomeIds, a \in Actors \ {Actors_admin}}

DeleteRequests ==
    {[id |-> i, currentUser |-> Actors_admin] : i \in Ids}
    \cup {[id |-> i, currentUser |-> a] : i \in SomeIds, a \in Actors \ {Actors_admin}}

Options ==
    {NoProps,
     [search |-> <<"N">>],
     [status |-> UserStatus.INACTIVE],
     [status |-> "", role |-> UserRole.ADMIN],
     [search |-> <<"a">>, status |-> UserStatus.ACTIVE, role |-> UserRole.ADMIN]}

\* no identity; the admin role without an id; an id without a role; an admin
Headers_admin == ("x-user-id" :> "2") @@ ("x-user-role" :> "admin")

Headers == {NoProps, "x-user-role" :> "admin", "x-user-id" :> "1", Headers_admin}

\* two bodies that pass the validation chains and two that do not
Bodies ==
    {[name |-> <<" ", "m">>],
     [role |-> UserRole.ADMIN, status |-> UserStatus.INACTIVE, email |-> <<"z">>],
     [name |-> <<" ">>],
     [name |-> <<"m">>, role |-> "root"]}

\* the admin with every body; the other callers with a valid and an invalid one
PutRequests ==
    [headers : {Headers_admin}, id : SomeIds, body : Bodies]
    \cup [headers : Headers \ {Headers_admin}, id : SomeIds,
          body : {[name |-> <<" ", "m">>], [name |-> <<" ">>]}]

DeleteRequests_http == [headers : Headers, id : SomeIds]

Password8 == [i \in 1..PasswordMinLength |-> "p"]

\* a signup that asks for the admin role, one for the same address in upper
\* case, and two that the validation chains reject
SignupBodies ==
    {[email |-> <<"a", "@", "x">>, password |-> Password8, name |-> <<"n">>,
      role |-> UserRole.ADMIN],
     [email |-> <<"A", "@", "x">>, password |-> Password8, name |-> <<" ", "n">>],
     [email |-> <<"a">>, password |-> Password8, name |-> <<"n">>],
     [email |-> <<"b", "@", "x">>, password |-> <<"p">>, name |-> <<"n">>,
      role |-> UserRole.ADMIN]}

----------------------------------------------------------------------------
(* The directory and the calls in flight *)

Idle == [pc |-> "idle"]

\* no call has returned since the event loop last took a task
NoRet == [op |-> "none"]

Freshest(c) == calls[c] = Idle /\ \A d \in 1..(c - 1) : calls[d] # Idle

Init ==
    /\ users = <<>>
    /\ calls = [c \in 1..MaxCalls |-> Idle]
    /\ now = 0
    /\ nextId = 1
    /\ ret = NoRet
    /\ deleted = {}
    /\ ops = 0

\* time passes
Tick ==
    /\ ret = NoRet
    /\ ops < MaxOps
    /\ ops' = ops + 1
    /\ now' = now + 1
    /\ UNCHANGED <<users, calls, nextId, ret, deleted>>

\* the caller has its result (or its error); the event loop takes the next task
Return ==
    /\ ret # NoRet
    /\ ret' = NoRet
    /\ UNCHANGED <<users, calls, now, nextId, deleted, ops>>

\* createUser(userData) runs to its throw or to `await bcrypt.hash`
CreateUserCall(c, userData) ==
    /\ ret = NoRet
    /\ Freshest(c)
    /\ LET r == createUserCheck(users, userData)
       IN  /\ r.kind = "await" => ops < MaxOps
           /\ ops' = IF r.kind = "await" THEN ops + 1 ELSE ops
           /\ calls' = IF r.kind = "await"
                       THEN [calls EXCEPT ![c] = [pc |-> "createUser", userData |-> userData]]
                       ELSE calls
           /\ ret' = [op |-> "createUser", phase |-> "call", userData |-> userData, result |-> r]
    /\ UNCHANGED <<users, now, nextId, deleted>>

\* bcrypt.hash resolves: createUser builds the user, stores it and returns.
\* The two `new Date()` are d apart.
CreateUserResume(c, d) ==
    /\ ret = NoRet
    /\ calls[c].pc = "createUser"
    /\ nextId <= MaxUsers
    /\ d > 0 => ops < MaxOps
    /\ LET userData == calls[c].userData
           user == newUser(userData, bcryptHash(userData.password), nextId, now, now + d)
       IN  /\ users' = mapSet(users, user.id, user)
           /\ ret' = [op |-> "createUser", phase |-> "resume", userData |-> userData,
                      result |-> [kind |-> "user", value |-> sanitizeUser(user)]]
    /\ calls' = [calls EXCEPT ![c] = Idle]
    /\ nextId' = nextId + 1
    /\ now' = now + d
    /\ ops' = ops + d
    /\ UNCHANGED deleted

\* a rejection after which the account is stored all the same
CreateUserHashFails_stored(c) ==
    /\ ret = NoRet
    /\ calls[c].pc = "createUser"
    /\ nextId <= MaxUsers
    /\ LET userData == calls[c].userData
           user == newUser(userData, bcryptHash(userData.password), nextId, now, now)
       IN  users' = mapSet(users, user.id, user)
    /\ nextId' = nextId + 1
    /\ calls' = [calls EXCEPT ![c] = Idle]
    /\ ret' = [op |-> "createUser", phase |-> "resume", userData |-> calls[c].userData,
               result |-> Throw("bcrypt")]
    /\ UNCHANGED <<now, deleted, ops>>

\* bcrypt.hash rejects: the rejection leaves createUser
CreateUserHashFails(c) ==
    /\ ret = NoRet
    /\ calls[c].pc = "createUser"
    /\ calls' = [calls EXCEPT ![c] = Idle]
    /\ ret' = [op |-> "createUser", phase |-> "resume", userData |-> calls[c].userData,
               result |-> Throw("bcrypt")]
    /\ UNCHANGED <<users, now, nextId, deleted, ops>>

\* verifyPassword(email, password) runs to `return null` or to `await bcrypt.compare`
VerifyPasswordCall(c, email, password) ==
    /\ ret = NoRet
    /\ Freshest(c)
    /\ LET user == findUserByEmail(users, email)
           matches == \E i \in 1..Len(users) :
                          /\ users[i].value.email = trim(toLowerCase(email))
                          /\ bcryptCompare(password, users[i].value.password)
       IN  /\ user # Null => ops < MaxOps
           /\ ops' = IF user = Null THEN ops ELSE ops + 1
           /\ calls' = IF user = Null THEN calls
                       ELSE [calls EXCEPT ![c] =
                               [pc |-> "verifyPassword", user |-> user,
                                password |-> password, matches |-> matches]]
           /\ ret' = [op |-> "verifyPassword", phase |-> "call", email |-> email,
                      password |-> password, matches |-> matches,
                      result |-> IF user = Null THEN [kind |-> "null"] ELSE [kind |-> "await"]]
    /\ UNCHANGED <<users, now, nextId, deleted>>

\* bcrypt.compare resolves
VerifyPasswordResume(c) ==
    /\ ret = NoRet
    /\ calls[c].pc = "verifyPassword"
    /\ LET r == verifyPasswordResume(users, calls[c].user, calls[c].password, now)
       IN  /\ users' = r.users
           /\ ret' = [op |-> "verifyPassword", phase |-> "resume",
                      password |-> calls[c].password, matches |-> calls[c].matches,
                      id |-> calls[c].user.id, result |-> r.result]
    /\ calls' = [calls EXCEPT ![c] = Idle]
    /\ UNCHANGED <<now, nextId, deleted, ops>>

UpdateUser(id, updates, currentUser) ==
    /\ ret = NoRet
    /\ LET r == updateUser(users, id, updates, currentUser, now)
       IN  /\ r.result.kind = "user" => ops < MaxOps
           /\ ops' = IF r.result.kind = "user" THEN ops + 1 ELSE ops
           /\ users' = r.users
           /\ ret' = [op |-> "updateUser", id |-> id, updates |-> updates,
                      currentUser |-> currentUser, result |-> r.result]
    /\ UNCHANGED <<calls, now, nextId, deleted>>

DeleteUser(id, currentUser) ==
    /\ ret = NoRet
    /\ LET r == deleteUser(users, id, currentUser)
       IN  /\ r.result.kind = "true" => ops < MaxOps
           /\ ops' = IF r.result.kind = "true" THEN ops + 1 ELSE ops
           /\ users' = r.users
           /\ ret' = [op |-> "deleteUser", id |-> id, currentUser |-> currentUser,
                      result |-> r.result]
           /\ deleted' = IF r.result.kind = "true" THEN deleted \cup {id} ELSE deleted
    /\ UNCHANGED <<calls, now, nextId>>

GetAllUsers(options) ==
    /\ ret = NoRet
    /\ ret' = [op |-> "getAllUsers", options |-> options,
               result |-> [kind |-> "list", value |-> getAllUsers(users, options)]]
    /\ UNCHANGED <<users, calls, now, nextId, deleted, ops>>

GetUserStats ==
    /\ ret = NoRet
    /\ ret' = [op |-> "getUserStats", result |-> [kind |-> "stats", value |-> getUserStats(users)]]
    /\ UNCHANGED <<users, calls, now, nextId, deleted, ops>>

GetUserRoute(id) ==
    /\ ret = NoRet
    /\ ret' = [op |-> "GET /api/users/:id", id |-> id,
               result |-> [kind |-> "response", value |-> getUserRoute(users, id)]]
    /\ UNCHANGED <<users, calls, now, nextId, deleted, ops>>

Next ==
    \/ Tick
    \/ Return
    \/ \E c \in 1..MaxCalls, userData \in UserDatas : CreateUserCall(c, userData)
    \/ \E c \in 1..MaxCalls, d \in {0, 1} : CreateUserResume(c, d)
    \/ \E c \in 1..MaxCalls : CreateUserHashFails(c)
    \/ \E c \in 1..MaxCalls, email \in EmailInputs, password \in PasswordInputs :
           VerifyPasswordCall(c, email, password)
    \/ \E c \in 1..MaxCalls : VerifyPasswordResume(c)
    \/ \E req \in UpdateRequests : UpdateUser(req.id, req.updates, req.currentUser)
    \/ \E req \in DeleteRequests : DeleteUser(req.id, req.currentUser)
    \/ \E options \in Options : GetAllUsers(options)
    \/ GetUserStats
    \/ \E id \in SomeIds : GetUserRoute(id)

Spec == Init /\ [][Next]_vars

PutUserRoute(req) ==
    /\ ret = NoRet
    /\ LET r == putUserRoute(users, req.headers, req.id, req.body, now)
       IN  /\ r.response.status = 200 => ops < MaxOps
           /\ ops' = IF r.response.status = 200 THEN ops + 1 ELSE ops
           /\ users' = r.users
           /\ ret' = [op |-> "PUT /api/users/:id", headers |-> req.headers, id |-> req.id,
                      body |-> req.body,
                      result |-> [kind |-> "response", value |-> r.response]]
    /\ UNCHANGED <<calls, now, nextId, deleted>>

DeleteUserRoute(req) ==
    /\ ret = NoRet
    /\ LET r == deleteUserRoute(users, req.headers, req.id)
       IN  /\ r.response.status = 204 => ops < MaxOps
           /\ ops' = IF r.response.status = 204 THEN ops + 1 ELSE ops
           /\ users' = r.users
           /\ ret' = [op |-> "DELETE /api/users/:id", headers |-> req.headers, id |-> req.id,
                      result |-> [kind |-> "response", value |-> r.response]]
           /\ deleted' = IF r.response.status = 204 THEN deleted \cup {req.id} ELSE deleted
    /\ UNCHANGED <<calls, now, nextId>>

\* the directory behind the admin-only routes
NextHttp ==
    \/ Tick
    \/ Return
    \/ \E c \in 1..MaxCalls, userData \in UserDatas : CreateUserCall(c, userData)
    \/ \E c \in 1..MaxCalls, d \in {0, 1} : CreateUserResume(c, d)
    \/ \E c \in 1..MaxCalls : CreateUserHashFails(c)
    \/ \E c \in 1..MaxCalls, email \in EmailInputs, password \in PasswordInputs :
           VerifyPasswordCall(c, email, password)
    \/ \E c \in 1..MaxCalls : VerifyPasswordResume(c)
    \/ \E req \in PutRequests : PutUserRoute(req)
    \/ \E req \in DeleteRequests_http : DeleteUserRoute(req)

SpecHttp == Init /\ [][NextHttp]_vars

\* POST /api/users/signup runs to a 400 or to the `await bcrypt.hash` of createUser
SignupCall(c, body) ==
    /\ ret = NoRet
    /\ Freshest(c)
    /\ LET errors == signupValidationResult(body)
           r == IF errors # {}
                THEN [kind |-> "response",
                      value |-> [status |-> 400, body |-> [errors |-> errors]]]
                ELSE LET check == createUserCheck(users, signupUserData(body))
                     IN  IF check.kind = "throw"
                         THEN [kind |-> "response",
                               value |-> [status |-> 400, body |-> [error |-> check.message]]]
                         ELSE check
       IN  /\ r.kind = "await" => ops < MaxOps
           /\ ops' = IF r.kind = "await" THEN ops + 1 ELSE ops
           /\ calls' = IF r.kind = "await"
                       THEN [calls EXCEPT ![c] =
                               [pc |-> "signup", userData |-> signupUserData(body)]]
                       ELSE calls
           /\ ret' = [op |-> "POST /api/users/signup", phase |-> "call", body |-> body,
                      result |-> r]
    /\ UNCHANGED <<users, now, nextId, deleted>>

\* bcrypt.hash resolves: createUser stores the account, the route answers 201
SignupResume(c, d) ==
    /\ ret = NoRet
    /\ calls[c].pc = "signup"
    /\ nextId <= MaxUsers
    /\ d > 0 => ops < MaxOps
    /\ LET userData == calls[c].userData
           user == newUser(userData, bcryptHash(userData.password), nextId, now, now + d)
       IN  /\ users' = mapSet(users, user.id, user)
           /\ ret' = [op |-> "POST /api/users/signup", phase |-> "resume",
                      result |-> [kind |-> "response",
                                  value |-> [status |-> 201, body |-> sanitizeUser(user)]]]
    /\ calls' = [calls EXCEPT ![c] = Idle]
    /\ nextId' = nextId + 1
    /\ now' = now + d
    /\ ops' = ops + d
    /\ UNCHANGED deleted

\* bcrypt.hash rejects: the route answers 400 with the error's message
SignupHashFails(c) ==
    /\ ret = NoRet
    /\ calls[c].pc = "signup"
    /\ calls' = [calls EXCEPT ![c] = Idle]
    /\ ret' = [op |-> "POST /api/users/signup", phase |-> "resume",
               result |-> [kind |-> "response",
                           value |-> [status |-> 400, body |-> [error |-> "bcrypt"]]]]
    /\ UNCHANGED <<users, now, nextId, deleted, ops>>

\* the directory written through signup, the model functions and their awaits
NextSignup ==
    \/ Tick
    \/ Return
    \/ \E c \in 1..MaxCalls, body \in SignupBodies : SignupCall(c, body)
    \/ \E c \in 1..MaxCalls, d \in {0, 1} : SignupResume(c, d)
    \/ \E c \in 1..MaxCalls : SignupHashFails(c)
    \/ \E c \in 1..MaxCalls, userData \in UserDatas : CreateUserCall(c, userData)
    \/ \E c \in 1..MaxCalls, d \in {0, 1} : CreateUserResume(c, d)
    \/ \E c \in 1..MaxCalls : CreateUserHashFails(c)
    \/ \E c \in 1..MaxCalls, email \in EmailInputs, password \in PasswordInputs :
           VerifyPasswordCall(c, email, password)
    \/ \E c \in 1..MaxCalls : VerifyPasswordResume(c)
    \/ \E req \in UpdateRequests : UpdateUser(req.id, req.updates, req.currentUser)
    \/ \E req \in DeleteRequests : DeleteUser(req.id, req.currentUser)

SpecSignup == Init /\ [][NextSignup]_vars

----------------------------------------------------------------------------
(* Properties *)

storedEmails(m) == {m[i].value.email : i \in 1..Len(m)}

\* C1: in every reachable state no two stored accounts have the same
\* normalized email, also when several createUser calls are in flight.
C1_UniqueEmail ==
    \A i, j \in 1..Len(users) :
        i # j => trim(toLowerCase(users[i].value.email)) # trim(toLowerCase(users[j].value.email))

\* C2 as stated: a createUser call whose email normalizes to the email of a
\* stored account throws the conflict error and leaves the directory unchanged.
C2_ConflictAsStated ==
    [][(/\ ret'.op = "createUser" /\ ret'.phase = "call"
        /\ Has(ret'.userData, "email")
        /\ trim(toLowerCase(ret'.userData.email)) \in storedEmails(users))
       => (/\ ret'.result = Throw("User with this email already exists")
           /\ users' = users)]_vars

\* C2 amended: a createUser call that supplies a non-empty email, password and
\* name and whose email normalizes to the email of a stored account throws the
\* conflict error and leaves the directory unchanged.
C2_Conflict ==
    [][(/\ ret'.op = "createUser" /\ ret'.phase = "call"
        /\ \A k \in {"email", "password", "name"} :
               Has(ret'.userData, k) /\ ret'.userData[k] # <<>>
        /\ trim(toLowerCase(ret'.userData.email)) \in storedEmails(users))
       => (/\ ret'.result = Throw("User with this email already exists")
           /\ users' = users)]_vars

C2_Witness ==
    /\ ret.op = "createUser" /\ ret.phase = "call"
    /\ ret.result = Throw("User with this email already exists")
    /\ ret.userData.email \notin storedEmails(users)
    /\ trim(toLowerCase(ret.userData.email)) \in storedEmails(users)

\* C3: nothing createUser, verifyPassword, getAllUsers or updateUser returns,
\* and no body GET /api/users/:id sends, has a password property.
C3_NoPasswordReturned ==
    /\ (ret.op \in {"createUser", "verifyPassword", "updateUser"} /\ ret.result.kind = "user")
           => "password" \notin DOMAIN ret.result.value
    /\ ret.op = "getAllUsers"
           => \A i \in 1..Len(ret.result.value) : "password" \notin DOMAIN ret.result.value[i]
    /\ ret.op = "GET /api/users/:id" => "password" \notin DOMAIN ret.result.value.body

C3_Witness ==
    /\ ret.op = "verifyPassword" /\ ret.result.kind = "user"
    /\ "password" \in DOMAIN mapGet(users, ret.result.value.id)

\* C4: verifyPassword returns a user if and only if, when it was called, an
\* account with the normalized email existed whose hash the password matches;
\* otherwise it returns null, and it never throws.
C4_VerifyIff ==
    (ret.op = "verifyPassword" /\ ret.result.kind # "await")
        => /\ ret.result.kind \in {"user", "null"}
           /\ ret.result.kind = "user" <=> ret.matches

\* C5: updateUser by an absent or non-admin actor throws the authorization
\* error whether or not the id exists; by an admin on an id that does not exist
\* it throws not-found; the directory is unchanged in both cases.
C5_UpdateRefused ==
    [][ret'.op = "updateUser" =>
        LET actor == ret'.currentUser
            admin == actor # Null /\ actor.role = "admin"
            known == \E i \in 1..Len(users) : users[i].key = ret'.id
        IN  /\ ~admin => /\ ret'.result =
                               Throw("User editing is restricted to administrators only")
                         /\ users' = users
            /\ (admin /\ ~known) => /\ ret'.result = Throw("User not found")
                                    /\ users' = users]_vars

C5_Witness ==
    /\ ret.op = "updateUser"
    /\ ret.currentUser # Null /\ ret.currentUser.role = "user"
    /\ ~mapHas(users, ret.id)
    /\ users # <<>>
    /\ ret.result = Throw("User editing is restricted to administrators only")

\* C6: a successful updateUser changes, of the account with that id, only the
\* name, role and status the updates supply, and updatedAt; every other
\* property of the updates is ignored and every other account is unchanged.
C6_UpdateFrame ==
    [][(ret'.op = "updateUser" /\ ret'.result.kind = "user") =>
        /\ Len(users') = Len(users)
        /\ \E i \in 1..Len(users) :
            /\ users[i].key = ret'.id /\ users'[i].key = ret'.id
            /\ \A j \in 1..Len(users) : j # i => users'[j] = users[j]
            /\ LET old == users[i].value
                   new == users'[i].value
               IN  /\ DOMAIN new = DOMAIN old
                   /\ \A k \in {"name", "role", "status"} :
                          new[k] = IF k \in DOMAIN ret'.updates THEN ret'.updates[k] ELSE old[k]
                   /\ \A k \in {"id", "email", "password", "createdAt", "lastLoginAt"} :
                          new[k] = old[k]
                   /\ new.updatedAt = now]_vars

C6_Witness ==
    /\ ret.op = "updateUser" /\ ret.result.kind = "user"
    /\ "email" \in DOMAIN ret.updates
    /\ Len(users) = 2
    /\ mapGet(users, ret.id).updatedAt > mapGet(users, ret.id).createdAt

\* C7: deleteUser by an absent or non-admin actor throws the authorization
\* error whether or not the id exists; by an admin on an id that does not exist
\* it throws not-found; no account is removed in either case.
C7_DeleteRefused ==
    [][ret'.op = "deleteUser" =>
        LET actor == ret'.currentUser
            admin == actor # Null /\ actor.role = "admin"
            known == \E i \in 1..Len(users) : users[i].key = ret'.id
        IN  /\ ~admin => /\ ret'.result =
                               Throw("User deletion is restricted to administrators only")
                         /\ users' = users
            /\ (admin /\ ~known) => /\ ret'.result = Throw("User not found")
                                    /\ users' = users]_vars

C7_Witness ==
    /\ ret.op = "deleteUser"
    /\ ret.currentUser = Null
    /\ mapHas(users, ret.id)
    /\ ret.result = Throw("User deletion is restricted to administrators only")

\* C8: a successful deleteUser returns true, removes exactly the account with
\* that id and leaves every other account as it was, in the same order;
\* findUserById of that id is null right after it.
C8_DeleteFrame ==
    [][(ret'.op = "deleteUser" /\ ret'.result.kind # "throw") =>
        /\ ret'.result.kind = "true"
        /\ Len(users') = Len(users) - 1
        /\ \E i \in 1..Len(users) :
            /\ users[i].key = ret'.id
            /\ \A j \in 1..Len(users') : users'[j] = users[IF j < i THEN j ELSE j + 1]
        /\ findUserById(users', ret'.id) = Null]_vars

C8_Witness ==
    /\ ret.op = "deleteUser" /\ ret.result.kind = "true"
    /\ users # <<>>
    /\ findUserById(users, ret.id) = Null

\* C9: once deleteUser(id) has succeeded, no account with that id is in the
\* directory in any later state.
C9_DeletedStaysDeleted ==
    \A id \in deleted : ~mapHas(users, id)

\* C10: a verifyPassword call changes nothing in the directory except the
\* lastLoginAt of the account it matched, and only when it returns that
\* account; a call that returns null leaves the directory unchanged.
C10_VerifyFrame ==
    [][ret'.op = "verifyPassword" =>
        IF ret'.result.kind = "user"
        THEN /\ Len(users') = Len(users)
             /\ \A i \in 1..Len(users) :
                 /\ users'[i].key = users[i].key
                 /\ DOMAIN users'[i].value = DOMAIN users[i].value
                 /\ \A k \in DOMAIN users[i].value :
                        (k # "lastLoginAt" \/ users[i].key # ret'.result.value.id)
                            => users'[i].value[k] = users[i].value[k]
        ELSE users' = users]_vars

\* a nullable timestamp is no later than another (null is before every time)
tsLeq(a, b) == a = <<>> \/ (b # <<>> /\ a[1] <= b[1])

\* C11: after a successful verifyPassword the lastLoginAt of the account is
\* not null, and the lastLoginAt of an account never decreases from one state
\* to the next and is never ahead of the clock (so it does not decrease either
\* when an account is stored again).
C11_LastLoginMonotone ==
    [][/\ (ret'.op = "verifyPassword" /\ ret'.result.kind = "user") =>
              /\ ret'.result.value.lastLoginAt # <<>>
              /\ \E j \in 1..Len(users') :
                     /\ users'[j].key = ret'.result.value.id
                     /\ users'[j].value.lastLoginAt # <<>>
       /\ \A i \in 1..Len(users), j \in 1..Len(users') :
              users[i].key = users'[j].key
                  => tsLeq(users[i].value.lastLoginAt, users'[j].value.lastLoginAt)
       /\ \A j \in 1..Len(users') : tsLeq(users'[j].value.lastLoginAt, <<now'>>)]_vars

C11_Witness ==
    /\ ret.op = "verifyPassword" /\ ret.result.kind = "user"
    /\ \E c \in 1..MaxCalls :
           calls[c].pc = "verifyPassword" /\ calls[c].user.id = ret.result.value.id
    /\ ret.result.value.lastLoginAt[1] > ret.result.value.createdAt

\* C12: createUser throws the required-fields error whenever the email, the
\* password or the name is absent or empty, also when the email is that of a
\* stored account; the call stores nothing and leaves nothing pending.
C12_RequiredFields ==
    [][(/\ ret'.op = "createUser" /\ ret'.phase = "call"
        /\ \E k \in {"email", "password", "name"} :
               k \notin DOMAIN ret'.userData \/ ret'.userData[k] = <<>>)
       => (/\ ret'.result = Throw("Email, password, and name are required")
           /\ users' = users
           /\ calls' = calls)]_vars

C12_Witness ==
    /\ ret.op = "createUser" /\ ret.phase = "call"
    /\ ret.result = Throw("Email, password, and name are required")
    /\ "email" \in DOMAIN ret.userData
    /\ ret.userData.email # <<>>
    /\ trim(toLowerCase(ret.userData.email)) \in storedEmails(users)

\* C13: a successful createUser appends exactly one account and returns it
\* without the password: its id is the id of no account stored before, its
\* email the trimmed lower-cased input, its name the trimmed input, its role
\* the role given or user, its status active, its lastLoginAt null; the
\* accounts stored before are unchanged.
C13_CreateResult ==
    [][(ret'.op = "createUser" /\ ret'.phase = "resume" /\ ret'.result.kind = "user") =>
        LET userData == ret'.userData
            new == users'[Len(users')]
        IN  /\ Len(users') = Len(users) + 1
            /\ SubSeq(users', 1, Len(users)) = users
            /\ new.key = new.value.id
            /\ \A i \in 1..Len(users) : users[i].key # new.key /\ users[i].value.id # new.value.id
            /\ new.value.email = trim(toLowerCase(userData.email))
            /\ new.value.name = trim(userData.name)
            /\ new.value.role = IF "role" \in DOMAIN userData THEN userData.role ELSE "user"
            /\ new.value.status = "active"
            /\ new.value.lastLoginAt = <<>>
            /\ new.value.createdAt <= new.value.updatedAt /\ new.value.updatedAt = now'
            /\ bcryptCompare(userData.password, new.value.password)
            /\ ret'.result.value = [k \in DOMAIN new.value \ {"password"} |-> new.value[k]]]_vars

C13_Witness ==
    /\ ret.op = "createUser" /\ ret.phase = "resume" /\ ret.result.kind = "user"
    /\ ret.userData.email # ret.result.value.email
    /\ Len(users) = 2

\* C14: getUserStats returns totalUsers equal to the number of stored accounts,
\* activeUsers equal to the number of them with status active and administrators
\* equal to the number with role admin; on an empty directory all three are 0,
\* and on a directory made of two regular accounts and one admin account as
\* created they are 3, 3 and 1.
C14_StatsCounts ==
    ret.op = "getUserStats" =>
        LET stats == ret.result.value
            stored == 1..Len(users)
            regular == {i \in stored : users[i].value.role = "user"}
            admins == {i \in stored : users[i].value.role = "admin"}
            active == {i \in stored : users[i].value.status = "active"}
        IN  /\ stats.totalUsers = Cardinality(stored)
            /\ stats.activeUsers = Cardinality(active)
            /\ stats.administrators = Cardinality(admins)
            /\ users = <<>> =>
                  stats = [totalUsers |-> 0, activeUsers |-> 0, administrators |-> 0]
            /\ (Cardinality(regular) = 2 /\ Cardinality(admins) = 1
                  /\ Cardinality(stored) = 3 /\ active = stored) =>
                  stats = [totalUsers |-> 3, activeUsers |-> 3, administrators |-> 1]

\* three accounts created one after the other in an empty directory, two of
\* them regular and one admin, none updated or deleted since
C14_Witness ==
    /\ ret.op = "getUserStats"
    /\ ret.result.value = [totalUsers |-> 3, activeUsers |-> 3, administrators |-> 1]
    /\ nextId = 4 /\ deleted = {}
    /\ Cardinality(storedEmails(users)) = 3
    /\ \A i \in 1..Len(users) : users[i].value.updatedAt <= users[i].value.createdAt + 1
    /\ Cardinality({i \in 1..Len(users) : users[i].value.role = "user"}) = 2

\* s occurs in t
isSubstring(s, t) ==
    \E i \in 0..Len(t) :
        /\ i + Len(s) <= Len(t)
        /\ \A k \in 1..Len(s) : t[i + k] = s[k]

\* the accounts of m, in the Map's order and without their password, that
\* satisfy every filter of options among supplied
listed(m, options, supplied) ==
    LET satisfies(user) ==
            /\ "search" \in supplied =>
                  \/ isSubstring(toLowerCase(options.search), toLowerCase(user.name))
                  \/ isSubstring(toLowerCase(options.search), user.email)
            /\ "status" \in supplied => user.status = options.status
            /\ "role" \in supplied => user.role = options.role
        kept == SelectSeq(mapValues(m), satisfies)
    IN  [i \in 1..Len(kept) |-> [k \in DOMAIN kept[i] \ {"password"} |-> kept[i][k]]]

\* C15 as stated: getAllUsers returns exactly the accounts that satisfy every
\* filter present in options (search by lower-cased substring of name or email,
\* status and role by equality).
C15_FilterAsStated ==
    ret.op = "getAllUsers" =>
        ret.result.value = listed(users, ret.options, DOMAIN ret.options)

\* C15: getAllUsers returns exactly the accounts that satisfy every filter of
\* options that is present and not the empty string (search by lower-cased
\* substring of name or email, status and role by equality); an absent or
\* empty filter excludes nothing and no account satisfying the others is left out.
C15_Filter ==
    ret.op = "getAllUsers" =>
        ret.result.value =
            listed(users, ret.options,
                   {k \in DOMAIN ret.options :
                       IF k = "search" THEN ret.options[k] # <<>> ELSE ret.options[k] # ""})

C15_Witness ==
    /\ ret.op = "getAllUsers"
    /\ "status" \in DOMAIN ret.options /\ ret.options.status = ""
    /\ ret.result.value # <<>>
    /\ Len(ret.result.value) < Len(users)

\* C16: a verifyPassword call with email e finds what findUserByEmail finds for
\* every input that differs from e only in letter case or surrounding
\* whitespace (the same account, or null for both), returns null at once exactly
\* when they find nothing, and otherwise suspends holding that account and the
\* password, on which alone its success depends when bcrypt.compare resolves.
C16_CaseInsensitive ==
    [][/\ (ret'.op = "verifyPassword" /\ ret'.phase = "call") =>
            \A e2 \in EmailInputs :
                trim(toLowerCase(e2)) = trim(toLowerCase(ret'.email)) =>
                    LET found == findUserByEmail(users, e2)
                    IN  /\ found = findUserByEmail(users, ret'.email)
                        /\ found = Null <=> ret'.result.kind = "null"
                        /\ found = Null => calls' = calls
                        /\ found # Null =>
                              \E c \in 1..MaxCalls :
                                  /\ calls[c] = Idle
                                  /\ calls'[c].pc = "verifyPassword"
                                  /\ calls'[c].user = found
                                  /\ calls'[c].password = ret'.password
       /\ (ret'.op = "verifyPassword" /\ ret'.phase = "resume") =>
            \E c \in 1..MaxCalls :
                /\ calls[c].pc = "verifyPassword" /\ calls'[c] = Idle
                /\ ret'.result.kind = "user"
                     <=> bcryptCompare(calls[c].password, calls[c].user.password)
                /\ ret'.result.kind # "user" => ret'.result.kind = "null"]_vars

\* a call whose email is not the stored spelling finds the account
C16_Witness ==
    /\ ret.op = "verifyPassword" /\ ret.phase = "call"
    /\ ret.result.kind = "await"
    /\ ret.email \notin storedEmails(users)
    /\ \E e2 \in EmailInputs : e2 # ret.email /\ e2 \in storedEmails(users)
                                /\ findUserByEmail(users, e2) = findUserByEmail(users, ret.email)

\* C17: no step of the directory changes the id, the email or the password
\* hash of an account that is stored before and after it, whatever the
\* operation and its inputs, and every account is stored under its own id.
C17_Immutable ==
    [][/\ \A j \in 1..Len(users') : users'[j].key = users'[j].value.id
       /\ \A i \in 1..Len(users), j \in 1..Len(users') :
              users[i].key = users'[j].key =>
                  /\ users'[j].value.id = users[i].value.id
                  /\ users'[j].value.email = users[i].value.email
                  /\ users'[j].value.password = users[i].value.password]_vars

\* an update whose patch names the id, the email or the password went through
C17_Witness ==
    /\ ret.op = "updateUser" /\ ret.result.kind = "user"
    /\ DOMAIN ret.updates \cap {"id", "email", "password"} # {}
    /\ ret.result.value.name = <<"m">>

\* C18: every stored account has a role of UserRole and a status of UserStatus.
C18_RoleStatusInRange ==
    \A i \in 1..Len(users) :
        /\ users[i].value.role \in {UserRole.USER, UserRole.ADMIN}
        /\ users[i].value.status \in
              {UserStatus.ACTIVE, UserStatus.INACTIVE, UserStatus.PENDING}

\* C19: the part of createUser that runs before bcrypt.hash resolves stores
\* nothing, so findUserByEmail, getAllUsers and getUserStats answer after it as
\* before it; and when bcrypt.hash rejects, nothing is stored, no id is used,
\* the rejection is what the caller gets and the call is over (no second attempt
\* is pending).
C19_NothingBeforeHash ==
    [][/\ (ret'.op = "createUser" /\ ret'.phase = "call") =>
            /\ users' = users /\ nextId' = nextId
            /\ \A e \in EmailInputs : findUserByEmail(users', e) = findUserByEmail(users, e)
            /\ getAllUsers(users', NoProps) = getAllUsers(users, NoProps)
            /\ getUserStats(users') = getUserStats(users)
       /\ (ret'.op = "createUser" /\ ret'.phase = "resume" /\ ret'.result.kind = "throw") =>
            /\ users' = users /\ nextId' = nextId
            /\ ret'.result = Throw("bcrypt")
            /\ \E c \in 1..MaxCalls :
                   /\ calls[c].pc = "createUser" /\ calls[c].userData = ret'.userData
                   /\ calls'[c] = Idle
                   /\ \A c2 \in 1..MaxCalls \ {c} : calls'[c2] = calls[c2]]_vars

\* a hash failed and the directory holds no account for the call's email
C19_Witness ==
    /\ ret.op = "createUser" /\ ret.phase = "resume"
    /\ ret.result = Throw("bcrypt")
    /\ findUserByEmail(users, ret.userData.email) = Null
    /\ \A c \in 1..MaxCalls : calls[c] = Idle

\* the request carries an x-user-id and the x-user-role admin
sentByAdmin(headers) ==
    /\ "x-user-id" \in DOMAIN headers
    /\ "x-user-role" \in DOMAIN headers /\ headers["x-user-role"] = "admin"

\* the patch is one the route accepts: a name of 1 to 100 characters once
\* trimmed, a role of UserRole, a status of UserStatus
validPatch(body) ==
    /\ "name" \in DOMAIN body => Len(trim(body.name)) \in 1..100
    /\ "role" \in DOMAIN body => body.role \in {"user", "admin"}
    /\ "status" \in DOMAIN body => body.status \in {"active", "inactive", "pending"}

\* C20 as stated: PUT and DELETE /api/users/:id answer 403 and leave the
\* directory unchanged unless the request carries x-user-id and x-user-role
\* admin, whatever the patch and the id; an admin request for an id that is not
\* stored is answered 404.
C20_RoutesAsStated ==
    [][(ret'.op \in {"PUT /api/users/:id", "DELETE /api/users/:id"}) =>
        LET status == ret'.result.value.status
        IN  /\ ~sentByAdmin(ret'.headers) => status = 403 /\ users' = users
            /\ (sentByAdmin(ret'.headers) /\ ~mapHas(users, ret'.id)) => status = 404]_vars

\* C20: PUT and DELETE /api/users/:id answer 403 and leave the directory
\* unchanged unless the request carries x-user-id and x-user-role admin,
\* whatever the patch and the id; an admin DELETE, or an admin PUT with a valid
\* patch, for an id that is not stored is answered 404 and an admin PUT with an
\* invalid patch is answered 400, the directory unchanged in both cases.
C20_Routes ==
    [][(ret'.op \in {"PUT /api/users/:id", "DELETE /api/users/:id"}) =>
        LET status == ret'.result.value.status
            put == ret'.op = "PUT /api/users/:id"
        IN  /\ ~sentByAdmin(ret'.headers) => status = 403 /\ users' = users
            /\ (sentByAdmin(ret'.headers) /\ put /\ ~validPatch(ret'.body)) =>
                  status = 400 /\ users' = users
            /\ (sentByAdmin(ret'.headers) /\ ~mapHas(users, ret'.id)
                  /\ (put => validPatch(ret'.body))) =>
                  status = 404 /\ users' = users]_vars

\* a PUT without x-user-id, with an invalid patch and an unknown id, answered 403
C20_Witness ==
    /\ ret.op = "PUT /api/users/:id"
    /\ ret.result.value.status = 403
    /\ "x-user-id" \notin DOMAIN ret.headers /\ "x-user-role" \in DOMAIN ret.headers
    /\ ~validPatch(ret.body)
    /\ ~mapHas(users, ret.id)
    /\ users # <<>>

\* a signup that gets as far as createUser's await passes the role user, and
\* the account its 201 reports is stored with the role user
signupStoresUserRole ==
    /\ (ret'.op = "POST /api/users/signup" /\ ret'.phase = "call"
          /\ ret'.result.kind = "await") =>
            \E c \in 1..MaxCalls :
                /\ calls[c] = Idle /\ calls'[c].pc = "signup"
                /\ calls'[c].userData.role = "user"
    /\ (ret'.op = "POST /api/users/signup" /\ ret'.phase = "resume"
          /\ ret'.result.value.status = 201) =>
            /\ Len(users') = Len(users) + 1
            /\ users'[Len(users')].value.role = "user"
            /\ ret'.result.value.body.role = "user"

\* an account that is an admin after the step and was not one before it (or
\* was not stored) got the role from createUser with the role admin or from an
\* updateUser by an admin
adminOnlyByCreateOrUpdate ==
    \A j \in 1..Len(users') :
        (/\ users'[j].value.role = "admin"
         /\ ~\E i \in 1..Len(users) :
                users[i].key = users'[j].key /\ users[i].value.role = "admin") =>
            \/ /\ ret'.op = "createUser" /\ ret'.phase = "resume"
               /\ ret'.result.kind = "user"
               /\ Has(ret'.userData, "role") /\ ret'.userData.role = "admin"
               /\ j = Len(users')
            \/ /\ ret'.op = "updateUser" /\ ret'.result.kind = "user"
               /\ ret'.currentUser # Null /\ ret'.currentUser.role = "admin"
               /\ Has(ret'.updates, "role") /\ ret'.updates.role = "admin"
               /\ ret'.id = users'[j].key

\* C21: every account created through POST /api/users/signup has the role
\* user whatever role the body carries, and an account becomes an admin only
\* through createUser with the role admin or through an updateUser by an admin.
C21_AdminOrigin == [][signupStoresUserRole /\ adminOnlyByCreateOrUpdate]_vars

\* the signup part alone, which no step violates
SignupRoleUser == [][signupStoresUserRole]_vars

\* two accounts stored before and after the step keep their relative place
orderKept ==
    \A i1, i2 \in 1..Len(users), j1, j2 \in 1..Len(users') :
        (users[i1].key = users'[j1].key /\ users[i2].key = users'[j2].key /\ i1 < i2)
            => j1 < j2

\* getAllUsers lists the accounts in the order of their creation (ids are
\* handed out in increasing order)
listedInCreationOrder ==
    ret'.op = "getAllUsers" =>
        \A i, j \in 1..Len(ret'.result.value) :
            i < j => ret'.result.value[i].id < ret'.result.value[j].id

\* C22: getAllUsers returns the accounts in the order of their creation, and no
\* step changes the relative order of two accounts that are stored before and
\* after it.
C22_ListOrder == [][listedInCreationOrder /\ orderKept]_vars

\* the second part alone, which no step violates
OrderKept == [][orderKept]_vars

\* C23: no step changes the createdAt of a stored account or lowers its
\* updatedAt, and the updatedAt of every stored account is at or after its
\* createdAt (the clock `now` never goes back).
C23_Timestamps ==
    [][/\ now' >= now
       /\ \A j \in 1..Len(users') :
              users'[j].value.createdAt <= users'[j].value.updatedAt
       /\ \A i \in 1..Len(users), j \in 1..Len(users') :
              users[i].key = users'[j].key =>
                  /\ users'[j].value.createdAt = users[i].value.createdAt
                  /\ users'[j].value.updatedAt >= users[i].value.updatedAt]_vars

\* C24: what getUserStats returns agrees with getAllUsers on the same
\* directory: totalUsers is the length of the unfiltered listing, activeUsers
\* the length of the listing with status active, administrators the length of
\* the listing with role admin, and neither exceeds totalUsers.
C24_StatsAgreeWithList ==
    ret.op = "getUserStats" =>
        LET stats == ret.result.value
        IN  /\ stats.totalUsers = Len(getAllUsers(users, NoProps))
            /\ stats.activeUsers = Len(getAllUsers(users, [status |-> "active"]))
            /\ stats.administrators = Len(getAllUsers(users, [role |-> "admin"]))
            /\ stats.activeUsers <= stats.totalUsers
            /\ stats.administrators <= stats.totalUsers

\* statistics of a directory with an inactive account, an admin and a non-admin
C24_Witness ==
    /\ ret.op = "getUserStats"
    /\ 0 < ret.result.value.activeUsers
    /\ ret.result.value.activeUsers < ret.result.value.totalUsers
    /\ 0 < ret.result.value.administrators
    /\ ret.result.value.administrators < ret.result.value.totalUsers

\* C25: every stored account has a non-empty email in normalized form (lower
\* case, no surrounding whitespace) and a non-empty name, and the name createUser
\* stores has no surrounding whitespace, whatever input createUser accepted.
C25_StoredNormalized ==
    [][/\ \A j \in 1..Len(users') :
              /\ users'[j].value.email # <<>>
              /\ users'[j].value.name # <<>>
              /\ users'[j].value.email = trim(toLowerCase(users'[j].value.email))
       /\ (ret'.op = "createUser" /\ ret'.phase = "resume" /\ ret'.result.kind = "user") =>
              users'[Len(users')].value.name = trim(users'[Len(users')].value.name)]_vars

====
